---- MODULE Spec2Model ----
(***************************************************************************)
(* A model of pyFileRen.py (FileRenamerFrame): the folder set, the file    *)
(* list, the rename plan and the Run loop, over a small POSIX file system. *)
(*                                                                         *)
(* Python strings are sequences of one-character strings, so that find,    *)
(* replace, split, basename, join and glob are modelled by what they do.   *)
(***************************************************************************)
EXTENDS Integers, Sequences, FiniteSets, TLC

-----------------------------------------------------------------------------
(* Python str operations *)

\* s[i:] of Python for a 0-based i: the characters after the first i
DropFirst(s, n) == SubSeq(s, n + 1, Len(s))

\* whether sub occurs in s at the 1-based position i
OccursAt(s, sub, i) ==
    /\ i >= 1
    /\ i + Len(sub) - 1 <= Len(s)
    /\ SubSeq(s, i, i + Len(sub) - 1) = sub

\* the first 1-based position from i on at which sub occurs in s, 0 when none
RECURSIVE FindFrom(_, _, _)
FindFrom(s, sub, i) ==
    IF i + Len(sub) - 1 > Len(s) THEN 0
    ELSE IF OccursAt(s, sub, i) THEN i
    ELSE FindFrom(s, sub, i + 1)

\* the last 1-based position up to i at which sub occurs in s, 0 when none
RECURSIVE RFindFrom(_, _, _)
RFindFrom(s, sub, i) ==
    IF i < 1 THEN 0
    ELSE IF OccursAt(s, sub, i) THEN i
    ELSE RFindFrom(s, sub, i - 1)

\* sub in s
Contains(s, sub) == FindFrom(s, sub, 1) # 0

\* s.startswith(sub)
StartsWith(s, sub) == OccursAt(s, sub, 1)

\* s.endswith(sub)
EndsWith(s, sub) == Len(sub) <= Len(s) /\ OccursAt(s, sub, Len(s) - Len(sub) + 1)

\* s.find(sub): the 0-based index of the first occurrence, -1 when there is none
Find(s, sub) == FindFrom(s, sub, 1) - 1

\* s.rfind(sub): the 0-based index of the last occurrence, -1 when there is none
RFind(s, sub) == RFindFrom(s, sub, Len(s) - Len(sub) + 1) - 1

\* s.replace(old, new): every non-overlapping occurrence, left to right; an
\* empty old matches before every character and at the end
RECURSIVE Replace(_, _, _)
Replace(s, old, new) ==
    IF old = <<>>
    THEN IF s = <<>> THEN new
         ELSE new \o <<Head(s)>> \o
              (IF Len(s) = 1 THEN new ELSE Replace(Tail(s), old, new))
    ELSE IF Len(s) < Len(old) THEN s
    ELSE IF StartsWith(s, old)
         THEN new \o Replace(DropFirst(s, Len(old)), old, new)
         ELSE <<Head(s)>> \o Replace(Tail(s), old, new)

\* s.split(sep) for a non-empty sep: empty pieces are kept
RECURSIVE Split(_, _)
Split(s, sep) ==
    LET i == Find(s, sep)
    IN  IF i = -1 THEN <<s>>
        ELSE <<SubSeq(s, 1, i)>> \o Split(DropFirst(s, i + Len(sep)), sep)

\* "while '' in l: l.remove('')"
RemoveEmpty(l) == SelectSeq(l, LAMBDA x : x # <<>>)

\* str(n) for n >= 0
Digits == <<"0", "1", "2", "3", "4", "5", "6", "7", "8", "9">>
RECURSIVE Str(_)
Str(n) == IF n < 10 THEN <<Digits[n + 1]>>
          ELSE Str(n \div 10) \o <<Digits[(n % 10) + 1]>>

\* s.zfill(w) for an unsigned s, and '%.wi' % n
RECURSIVE ZFill(_, _)
ZFill(s, w) == IF Len(s) >= w THEN s ELSE ZFill(<<"0">> \o s, w)

\* the concatenation of a sequence of strings
RECURSIVE Concat(_)
Concat(l) == IF l = <<>> THEN <<>> ELSE Head(l) \o Concat(Tail(l))

-----------------------------------------------------------------------------
(* os.path (posixpath) *)

SEP == <<"/">>
DOT == <<".">>

\* os.path.basename(p): p[p.rfind('/')+1:]
Basename(p) == DropFirst(p, RFind(p, SEP) + 1)

\* s.rstrip('/')
RECURSIVE RStripSep(_)
RStripSep(s) == IF s # <<>> /\ s[Len(s)] = "/" THEN RStripSep(SubSeq(s, 1, Len(s) - 1))
                ELSE s

\* os.path.split(p)[0]: the head, without its trailing separators unless it is
\* separators only
SplitHead(p) ==
    LET head == SubSeq(p, 1, RFind(p, SEP) + 1)
    IN  IF head # <<>> /\ RStripSep(head) # <<>> THEN RStripSep(head) ELSE head

\* os.path.join(a, b)
PathJoin(a, b) ==
    IF StartsWith(b, SEP) THEN b
    ELSE IF a = <<>> \/ EndsWith(a, SEP) THEN a \o b
    ELSE a \o SEP \o b

-----------------------------------------------------------------------------
(* The file system: a sequence of entries in listing order. Every entry has  *)
(* its absolute path without empty components, whether it is a directory,   *)
(* and an identity (the inode: what a rename moves and an overwrite loses). *)
(* Paths are absolute and hold no "." or ".." component.                    *)

\* the path the kernel resolves p to: empty components dropped
Canon(p) == LET parts == RemoveEmpty(Split(p, SEP))
            IN  Concat([i \in 1..Len(parts) |-> SEP \o parts[i]])

\* the directory holding the canonical path c ("" for the root's children)
ParentOf(c) == SubSeq(c, 1, RFind(c, SEP))

\* the index in fsys of the entry p names, 0 when there is none
RECURSIVE LookupFrom(_, _, _)
LookupFrom(fsys, c, i) ==
    IF i > Len(fsys) THEN 0
    ELSE IF fsys[i].path = c THEN i
    ELSE LookupFrom(fsys, c, i + 1)
Lookup(fsys, p) == LookupFrom(fsys, Canon(p), 1)

\* the root directory always exists
IsRootPath(c) == c = <<>>

\* os.path.lexists(p)
LExists(fsys, p) == LET c == Canon(p)
                    IN  IsRootPath(c) \/ LookupFrom(fsys, c, 1) # 0

\* os.path.isdir(p)
IsDir(fsys, p) == LET c == Canon(p)
                      k == LookupFrom(fsys, c, 1)
                  IN  IsRootPath(c) \/ (k # 0 /\ fsys[k].dir)

\* os.listdir(d): the names in d in listing order, nothing when d is no directory
ListDir(fsys, d) ==
    LET c    == Canon(d)
        kids == SelectSeq(fsys, LAMBDA e : ParentOf(e.path) = c)
    IN  IF ~IsDir(fsys, d) THEN <<>>
        ELSE [i \in 1..Len(kids) |-> Basename(kids[i].path)]

-----------------------------------------------------------------------------
(* glob.glob(pathname) for a pathname whose directory part is non-empty and *)
(* holds no wildcard, and whose patterns use literals, '*' and '?' only    *)

\* glob.has_magic(s)
HasMagic(s) == \E i \in 1..Len(s) : s[i] \in {"*", "?", "["}

\* glob._ishidden(s)
IsHidden(s) == s # <<>> /\ s[1] = "."

\* fnmatch.fnmatch(name, pat) on POSIX (no case folding)
RECURSIVE FnMatch(_, _)
FnMatch(name, pat) ==
    IF pat = <<>> THEN name = <<>>
    ELSE IF Head(pat) = "*"
         THEN FnMatch(name, Tail(pat)) \/ (name # <<>> /\ FnMatch(Tail(name), pat))
    ELSE IF Head(pat) = "?"
         THEN name # <<>> /\ FnMatch(Tail(name), Tail(pat))
    ELSE name # <<>> /\ Head(name) = Head(pat) /\ FnMatch(Tail(name), Tail(pat))

\* glob._glob1(dirname, pattern): the listing, hidden names dropped unless the
\* pattern is hidden itself, filtered by the pattern
Glob1(fsys, dirname, pattern) ==
    SelectSeq(ListDir(fsys, dirname),
              LAMBDA n : (IsHidden(pattern) \/ ~IsHidden(n)) /\ FnMatch(n, pattern))

\* glob.glob(pathname): directories match like files
Glob(fsys, pathname) ==
    LET dirname  == SplitHead(pathname)
        basename == Basename(pathname)
        names    == Glob1(fsys, dirname, basename)
    IN  IF ~HasMagic(pathname)
        THEN IF basename # <<>>
             THEN IF LExists(fsys, pathname) THEN <<pathname>> ELSE <<>>
             ELSE IF IsDir(fsys, dirname) THEN <<pathname>> ELSE <<>>
        ELSE [i \in 1..Len(names) |-> PathJoin(dirname, names[i])]

-----------------------------------------------------------------------------
(* os.rename(src, dst) on POSIX: rename(2). The result is whether the call  *)
(* returned (ok) or raised OSError, and the file system afterwards. A       *)
(* renamed entry keeps its place in the listing.                            *)

\* whether the canonical path c is d or lies below d
IsUnder(c, d) == c = d \/ StartsWith(c, d \o SEP)

\* the entries of fsys other than the entry src names and the entry of index
\* gone (0: none), with what lies below src moved below dst
Remaining(fsys, src, dst, gone) ==
    LET kept == SelectSeq(fsys, LAMBDA e :
                    e.path # src /\ (gone = 0 \/ e.path # fsys[gone].path))
    IN  [i \in 1..Len(kept) |->
            IF IsUnder(kept[i].path, src)
            THEN [kept[i] EXCEPT !.path = dst \o DropFirst(kept[i].path, Len(src))]
            ELSE kept[i]]

\* the places in the listing of its new directory the renamed entry can take:
\* before any of the other entries of that directory, or after them all
Places(fsys, src, dst, gone) ==
    LET rest == Remaining(fsys, src, dst, gone)
    IN  0..Len(SelectSeq(rest, LAMBDA e : ParentOf(e.path) = ParentOf(dst)))

\* the entries of fsys with src (and what lies below it) moved to dst, the
\* entry of index gone (0: none) dropped; the renamed entry is listed after
\* `at` of the other entries of its new directory.  Where the file system
\* lists a renamed entry is not specified (tmpfs lists it first, ext4 where
\* its name hashes to), and every other entry keeps its place
MoveEntries(fsys, src, dst, gone, at) ==
    LET rest == Remaining(fsys, src, dst, gone)
        e    == [fsys[LookupFrom(fsys, src, 1)] EXCEPT !.path = dst]
        sib  == { k \in 1..Len(rest) : ParentOf(rest[k].path) = ParentOf(dst) }
        \* the index in rest the renamed entry is put after
        cut  == IF at = 0
                THEN IF sib = {} THEN Len(rest)
                     ELSE (CHOOSE k \in sib : \A m \in sib : k <= m) - 1
                ELSE CHOOSE k \in sib : Cardinality({ m \in sib : m <= k }) = at
    IN  SubSeq(rest, 1, cut) \o <<e>> \o SubSeq(rest, cut + 1, Len(rest))

\* os.rename(src, dst) on POSIX: whether it returns, and the file systems it
\* can leave (one for each place of the renamed entry in its directory's
\* listing; the file system as it was, when nothing is renamed)
OsRename(fsys, src, dst) ==
    LET s   == Lookup(fsys, src)
        d   == Lookup(fsys, dst)
        cs  == Canon(src)
        cd  == Canon(dst)
        err == [ok |-> FALSE, fss |-> {fsys}]
        done == [ok |-> TRUE,
                 fss |-> { MoveEntries(fsys, cs, cd, d, at) : at \in Places(fsys, cs, cd, d) }]
    IN  IF s = 0 THEN err                                      \* ENOENT
        ELSE IF IsRootPath(cd) THEN err                            \* EBUSY: the root
        ELSE IF ~IsDir(fsys, ParentOf(cd)) THEN err            \* ENOENT, ENOTDIR
        ELSE IF s = d THEN [ok |-> TRUE, fss |-> {fsys}]       \* the same file
        ELSE IF ~fsys[s].dir
             THEN IF d # 0 /\ fsys[d].dir THEN err             \* EISDIR
                  ELSE done
        ELSE IF d # 0 /\ ~fsys[d].dir THEN err                 \* ENOTDIR
        ELSE IF IsUnder(cd, cs) THEN err                       \* EINVAL
        ELSE IF d # 0 /\ ListDir(fsys, dst) # <<>> THEN err    \* ENOTEMPTY
        ELSE done

-----------------------------------------------------------------------------
(* The program's constants *)

\* self.newFFO: the new file format options, in the order the loop visits them
oFileN         == <<"o", "F", "i", "l", "e", "N">>
folderN        == <<"f", "o", "l", "d", "e", "r", "N">>
incNum         == <<"i", "n", "c", "N", "u", "m">>
incNumInFolder == <<"i", "n", "c", "N", "u", "m", "I", "n", "F", "o", "l", "d", "e", "r">>
ts             == <<"t", "s">>
newFFO         == <<oFileN, folderN, incNum, incNumInFolder, ts>>

\* "[%s]"%(k): the target string of option k
TStr(k) == <<"[">> \o k \o <<"]">>

\* the values the text controls are created with, and initList resets them to
DefaultTargetFN == <<"*", ".", "*">>
DefaultNewFN    == TStr(oFileN)

\* logHeader
LogHeader ==
    <<"T", "i", "m", "e", "s", "t", "a", "m", "p", ",", " ", "O", "r", "i", "g",
      "i", "a", "n", "l", " ", "f", "i", "l", "e", ",", " ", "R", "e", "n", "a",
      "m", "e", "d", " ", "f", "i", "l", "e", "\n">>
    \o [i \in 1..40 |-> "-"] \o <<"\n">>

-----------------------------------------------------------------------------
(* get_time_stamp *)

\* datetime.now(): the clock, read to the second; the model's runs stay within
\* the minute of the docstring's example
Now(sec) == [year |-> 2019, month |-> 9, day |-> 10, hour |-> 16, minute |-> 21,
             second |-> sec]

\* get_time_stamp(): '%.4i_%.2i_%.2i_%.2i_%.2i_%.2i'
GetTimeStamp(sec) ==
    LET t == Now(sec)
        u == <<"_">>
    IN  ZFill(Str(t.year), 4) \o u \o ZFill(Str(t.month), 2) \o u \o
        ZFill(Str(t.day), 2) \o u \o ZFill(Str(t.hour), 2) \o u \o
        ZFill(Str(t.minute), 2) \o u \o ZFill(Str(t.second), 2)

-----------------------------------------------------------------------------
(* updateFileList: the file list *)

\* "for dp in self.selectedFolders: fL += glob(path.join(dp, fileForm))"
RECURSIVE CollectFiles(_, _, _)
CollectFiles(fsys, folders, fileForm) ==
    IF folders = <<>> THEN <<>>
    ELSE Glob(fsys, PathJoin(Head(folders), fileForm))
         \o CollectFiles(fsys, Tail(folders), fileForm)

-----------------------------------------------------------------------------
(* updateFileList: the plan. The locals the loop over self.fileList carries  *)
(* from one file to the next are incN and prevFolderP; rStr records, per     *)
(* option, whether the option was replaced for the file and by what.         *)

NoRStr == [k \in 1..Len(newFFO) |-> [used |-> FALSE, val |-> <<>>]]

\* the locals before the loop
LocalsInit == [incN |-> 1, folderPath |-> <<>>, prevFolderP |-> <<>>, rStr |-> NoRStr]

\* zeroPadN = len(str(len(self.fileList)))
ZeroPadN(fL) == Len(Str(Len(fL)))

\* the replacement string of folderN: the last non-empty component
FolderName(folderPath) ==
    LET fp == RemoveEmpty(Split(folderPath, SEP))
    IN  IF Len(fp) > 0 THEN fp[Len(fp)] ELSE <<>>

\* "for k in self.newFFO" from option k on: acc holds newFN, incN and rStr
RECURSIVE TokenLoop(_, _, _)
TokenLoop(k, acc, ctx) ==
    IF k > Len(newFFO) THEN acc
    ELSE IF ~Contains(acc.newFN, TStr(newFFO[k])) THEN TokenLoop(k + 1, acc, ctx)
    ELSE LET name  == newFFO[k]
             incN1 == IF name = incNumInFolder /\ ctx.folderPath # ctx.prevFolderP
                      THEN 1 ELSE acc.incN
             rStr  == IF name = oFileN THEN ctx.oFN
                      ELSE IF name = folderN THEN FolderName(ctx.folderPath)
                      ELSE IF StartsWith(name, incNum)
                           THEN ZFill(Str(incN1), ctx.zeroPadN)
                      ELSE GetTimeStamp(ctx.sec)
             incN2 == IF StartsWith(name, incNum) THEN incN1 + 1 ELSE incN1
         IN  TokenLoop(k + 1,
                       [newFN |-> Replace(acc.newFN, TStr(name), rStr),
                        incN  |-> incN2,
                        rStr  |-> [acc.rStr EXCEPT ![k] = [used |-> TRUE, val |-> rStr]]],
                       ctx)

\* the body of "for i, fp in enumerate(self.fileList)" (i from 0): the locals
\* after it and the new file path it appends
LoopBody(i, fp, loc, newForm, override, zeroPadN, sec) ==
    LET bn         == Basename(fp)
        folderPath == Replace(fp, bn, <<>>)
        fn         == Split(bn, DOT)
        oFExt      == fn[Len(fn)]
        acc        == TokenLoop(1,
                          [newFN |-> newForm, incN |-> loc.incN, rStr |-> NoRStr],
                          [oFN         |-> fn[1],
                           folderPath  |-> folderPath,
                           prevFolderP |-> IF i = 0 THEN folderPath ELSE loc.prevFolderP,
                           zeroPadN    |-> zeroPadN,
                           sec         |-> sec])
        dir        == IF override # <<>> THEN override ELSE folderPath
    IN  [incN        |-> acc.incN,
         folderPath  |-> folderPath,
         prevFolderP |-> folderPath,
         rStr        |-> acc.rStr,
         newFP       |-> PathJoin(dir, acc.newFN \o DOT \o oFExt)]

\* the whole loop: self.nFileList for the file list fL
RECURSIVE PlanFrom(_, _, _, _, _, _)
PlanFrom(i, loc, fL, newForm, override, sec) ==
    IF i >= Len(fL) THEN <<>>
    ELSE LET r == LoopBody(i, fL[i + 1], loc, newForm, override, ZeroPadN(fL), sec)
         IN  <<r.newFP>> \o PlanFrom(i + 1, r, fL, newForm, override, sec)

NewFileList(fL, newForm, override, sec) ==
    PlanFrom(0, LocalsInit, fL, newForm, override, sec)

\* the locals after the first n passes of the loop
RECURSIVE LocalsAfter(_, _, _, _, _)
LocalsAfter(n, fL, newForm, override, sec) ==
    IF n = 0 THEN LocalsInit
    ELSE LET r == LoopBody(n - 1, fL[n], LocalsAfter(n - 1, fL, newForm, override, sec),
                           newForm, override, ZeroPadN(fL), sec)
         IN  [incN |-> r.incN, folderPath |-> r.folderPath,
              prevFolderP |-> r.prevFolderP, rStr |-> r.rStr]

-----------------------------------------------------------------------------
(* selectFolders *)

\* the picked path without the disk name MultiDirDialog puts before it
CutRoot(fp) == IF Find(fp, SEP) # -1 THEN DropFirst(fp, Find(fp, SEP)) ELSE fp

\* addFolders(dp): the sub-folders of dp, each followed by its own
RECURSIVE AddFolders(_, _)
\* addFolders(dp) with its two lines in the other order: the sub-folders of a
\* folder are added before the folder
AddFoldersInChildrenFirst(fsys, found) ==
    Concat([i \in 1..Len(found) |->
               IF IsDir(fsys, found[i])
               THEN AddFolders(fsys, found[i]) \o <<found[i]>>
               ELSE <<>>])
AddFoldersIn(fsys, found) ==
    Concat([i \in 1..Len(found) |->
               IF IsDir(fsys, found[i])
               THEN <<found[i]>> \o AddFolders(fsys, found[i])
               ELSE <<>>])
AddFolders(fsys, dp) == AddFoldersIn(fsys, Glob(fsys, PathJoin(dp, <<"*">>)))

\* self.selectedFolders after the dialog returned picked
SelectedFolders(fsys, picked, subFolders) ==
    LET roots == [i \in 1..Len(picked) |-> CutRoot(picked[i])]
    IN  IF subFolders
        THEN Concat([i \in 1..Len(roots) |-> <<roots[i]>> \o AddFolders(fsys, roots[i])])
        ELSE roots

-----------------------------------------------------------------------------
(* Bounds and inputs *)

\* how many times Run is pressed
MaxRuns == 2
\* how many other events the user causes after the first Run
MaxEventsAfterRun == 0
\* how many seconds the clock advances
MaxTicks == 1
\* the longest template the option choice builds
MaxTemplateLen == 5
\* the longest file list drawn from PlanPaths
MaxPlanFiles == 2
\* the length of the one long file list
LongLen == 10

tmp  == <<"/", "t", "m", "p">>
tmpA == <<"/", "t", "m", "p", "/", "a">>
tmpB == <<"/", "t", "m", "p", "/", "b">>
tmpC == <<"/", "t", "m", "p", "/", "a", "/", "c">>
aH   == <<"/", "t", "m", "p", "/", "a", "/", ".", "h">>
aX   == <<"/", "t", "m", "p", "/", "a", "/", "x", ".", "t", "x", "t">>
aY   == <<"/", "t", "m", "p", "/", "a", "/", "y", ".", "t", "x", "t">>
bZ   == <<"/", "t", "m", "p", "/", "b", "/", "z", ".", "t", "x", "t">>

\* the file system the program starts on; /tmp/a/.h is a hidden directory
FS0 == << [path |-> tmp,  dir |-> TRUE,  id |-> 1],
          [path |-> tmpA, dir |-> TRUE,  id |-> 2],
          [path |-> aX,   dir |-> FALSE, id |-> 3],
          [path |-> aY,   dir |-> FALSE, id |-> 4],
          [path |-> tmpC, dir |-> TRUE,  id |-> 5],
          [path |-> tmpB, dir |-> TRUE,  id |-> 6],
          [path |-> bZ,   dir |-> FALSE, id |-> 7],
          [path |-> aH,   dir |-> TRUE,  id |-> 8] >>

\* what MultiDirDialog.GetPaths() returns: the picked folders, each with the
\* disk name before it; /tmp/q does not exist
Disk == <<"H", "D">>
PickedChoices ==
    { <<Disk \o tmpA, Disk \o tmpB>>,
      <<Disk \o tmp>>,
      <<Disk \o tmp, Disk \o tmpA>>,
      <<Disk \o tmpB, Disk \o tmp>>,
      <<Disk \o <<"/", "t", "m", "p", "/", "q">>, Disk \o tmpB>> }

\* what the user enters as the target file pattern and as the new file format
EnteredTargetFN == { DefaultTargetFN, <<"*">> }
EnteredNewFN    == { DefaultNewFN, <<"n">> }

\* what the DirDialog returns as the folder to move renamed files to
Folder2MoveChoices == { tmpB }

-----------------------------------------------------------------------------
(* The state *)

VARIABLES
    fs,                  \* the file system
    clock,               \* the second datetime.now() reads
    logFile,             \* the text of log_pyFileRen.txt
    selectedFolders,     \* self.selectedFolders
    folder2moveRenFile,  \* self.folder2moveRenFile
    fileList,            \* self.fileList
    nFileList,           \* self.nFileList
    targetFN_txt,        \* the value of the text control targetFN_txt
    newFN_txt,           \* the value of the text control newFN_txt
    subFolders_chk,      \* the value of the check box subFolders_chk
    moveRenFiles_chk,    \* the value of the check box moveRenFiles_chk
    pc,                  \* "idle": in the event loop; "run": in the loop of Run;
                         \* "plan": in the loop of updateFileList
    runI,                \* Run: how many pairs the loop has renamed
    msg4log,             \* Run: the log message so far
    planI,               \* updateFileList: how many files the loop has visited
    loc,                 \* updateFileList: the locals of the loop
    runs,                \* how many times Run was pressed
    eventsAfterRun       \* how many other events followed the first Run

vars == <<fs, clock, logFile, selectedFolders, folder2moveRenFile, fileList,
          nFileList, targetFN_txt, newFN_txt, subFolders_chk, moveRenFiles_chk,
          pc, runI, msg4log, planI, loc, runs, eventsAfterRun>>

\* the second the clock starts at
Clock0 == Now(56).second

\* FileRenamerFrame.__init__: empty lists, the default texts, both boxes
\* unchecked, and the log file created with its header
Init ==
    /\ fs = FS0
    /\ clock = Clock0
    /\ logFile = LogHeader
    /\ selectedFolders = <<>>
    /\ folder2moveRenFile = <<>>
    /\ fileList = <<>>
    /\ nFileList = <<>>
    /\ targetFN_txt = DefaultTargetFN
    /\ newFN_txt = DefaultNewFN
    /\ subFolders_chk = FALSE
    /\ moveRenFiles_chk = FALSE
    /\ pc = "idle"
    /\ runI = 0
    /\ msg4log = <<>>
    /\ planI = 0
    /\ loc = LocalsInit
    /\ runs = 0
    /\ eventsAfterRun = 0

\* updateFileList(): self.fileList and self.nFileList from the folders, the two
\* text controls, the folder to move to, the file system and the clock
UpdateFileList(folders, fileForm, newForm, override) ==
    LET fL == CollectFiles(fs, folders, fileForm)
    IN  /\ fileList' = fL
        /\ nFileList' = NewFileList(fL, newForm, override, clock)

\* initList() that empties the folder list only
InitListKeepsFiles ==
    /\ selectedFolders' = <<>>
    /\ fileList' = fileList
    /\ nFileList' = nFileList
    /\ targetFN_txt' = DefaultTargetFN
    /\ newFN_txt' = DefaultNewFN

\* initList(): the three lists emptied, the two text controls reset
InitList ==
    /\ selectedFolders' = <<>>
    /\ fileList' = <<>>
    /\ nFileList' = <<>>
    /\ targetFN_txt' = DefaultTargetFN
    /\ newFN_txt' = DefaultNewFN

-----------------------------------------------------------------------------
(* The handlers *)

\* the program waits in the event loop, and the user causes an event other
\* than Run
UserEvent ==
    /\ pc = "idle"
    /\ runs = 0 \/ eventsAfterRun < MaxEventsAfterRun
    /\ eventsAfterRun' = IF runs = 0 THEN 0 ELSE eventsAfterRun + 1

\* onButtonPressDown, selFolders_btn: the dialog returns picked. No handler is
\* bound to the check box "Include sub-folders", which only this handler reads:
\* sub is the value the user left it with
SelectFolders(picked, sub) ==
    /\ UserEvent
    /\ subFolders_chk' = sub
    /\ selectedFolders' = SelectedFolders(fs, picked, sub)
    /\ UpdateFileList(selectedFolders', targetFN_txt, newFN_txt, folder2moveRenFile)
    /\ UNCHANGED <<fs, clock, logFile, folder2moveRenFile, targetFN_txt, newFN_txt,
                   moveRenFiles_chk, pc, runI, msg4log, planI, loc, runs>>

\* onCheckBox, moveRenFiles_chk: unchecking empties self.folder2moveRenFile
OnCheckBox ==
    /\ UserEvent
    /\ moveRenFiles_chk' = ~moveRenFiles_chk
    /\ folder2moveRenFile' = IF moveRenFiles_chk' THEN folder2moveRenFile ELSE <<>>
    /\ UNCHANGED <<fs, clock, logFile, selectedFolders, fileList, nFileList,
                   targetFN_txt, newFN_txt, subFolders_chk, pc, runI, msg4log,
                   planI, loc, runs>>

\* onButtonPressDown, selFolder2move_btn: the button is enabled while the box
\* is checked
SelectFolder2Move(dir) ==
    /\ UserEvent
    /\ moveRenFiles_chk
    /\ folder2moveRenFile' = dir
    /\ UpdateFileList(selectedFolders, targetFN_txt, newFN_txt, dir)
    /\ UNCHANGED <<fs, clock, logFile, selectedFolders, targetFN_txt, newFN_txt,
                   subFolders_chk, moveRenFiles_chk, pc, runI, msg4log, planI, loc,
                   runs>>

\* onEnteredInTC, targetFN_txt: the user types a pattern and presses Enter
EnterTargetFN(txt) ==
    /\ UserEvent
    /\ targetFN_txt' = txt
    /\ UpdateFileList(selectedFolders, txt, newFN_txt, folder2moveRenFile)
    /\ UNCHANGED <<fs, clock, logFile, selectedFolders, folder2moveRenFile, newFN_txt,
                   subFolders_chk, moveRenFiles_chk, pc, runI, msg4log, planI, loc,
                   runs>>

\* onEnteredInTC, newFN_txt: the user types a format and presses Enter
EnterNewFN(txt) ==
    /\ UserEvent
    /\ newFN_txt' = txt
    /\ UpdateFileList(selectedFolders, targetFN_txt, txt, folder2moveRenFile)
    /\ UNCHANGED <<fs, clock, logFile, selectedFolders, folder2moveRenFile,
                   targetFN_txt, subFolders_chk, moveRenFiles_chk, pc, runI, msg4log,
                   planI, loc, runs>>

\* onChoice, newFNOption_cho: option k is added to the end of newFN_txt
OnChoice(k) ==
    /\ UserEvent
    /\ Len(newFN_txt) + Len(TStr(newFFO[k])) <= MaxTemplateLen
    /\ newFN_txt' = newFN_txt \o TStr(newFFO[k])
    /\ UpdateFileList(selectedFolders, targetFN_txt, newFN_txt', folder2moveRenFile)
    /\ UNCHANGED <<fs, clock, logFile, selectedFolders, folder2moveRenFile,
                   targetFN_txt, subFolders_chk, moveRenFiles_chk, pc, runI, msg4log,
                   planI, loc, runs>>

\* onButtonPressDown, run_btn: msg4log = "", and the loop starts
RunStart ==
    /\ pc = "idle"
    /\ runs < MaxRuns
    /\ runs' = runs + 1
    /\ pc' = "run"
    /\ runI' = 0
    /\ msg4log' = <<>>
    /\ UNCHANGED <<eventsAfterRun, fs, clock, logFile, selectedFolders, folder2moveRenFile, fileList,
                   nFileList, targetFN_txt, newFN_txt, subFolders_chk,
                   moveRenFiles_chk, planI, loc>>

\* "%s, %s, %s\n\n"%(get_time_stamp(), fp, newFP)
LogRecord(sec, fp, newFP) ==
    GetTimeStamp(sec) \o <<",", " ">> \o fp \o <<",", " ">> \o newFP \o <<"\n", "\n">>

\* the loop of Run walking the plan from its last pair to its first
RunRenameBackwards ==
    /\ pc = "run"
    /\ runI < Len(fileList)
    /\ LET k == Len(fileList) - runI
           r == OsRename(fs, fileList[k], nFileList[k])
       IN  /\ r.ok
           /\ fs' \in r.fss
           /\ msg4log' = msg4log \o LogRecord(clock, fileList[k], nFileList[k])
    /\ runI' = runI + 1
    /\ UNCHANGED <<eventsAfterRun, clock, logFile, selectedFolders, folder2moveRenFile, fileList,
                   nFileList, targetFN_txt, newFN_txt, subFolders_chk,
                   moveRenFiles_chk, pc, planI, loc, runs>>

\* one pass of the loop of Run: rename(fp, newFP) returns, and the record is
\* added to msg4log
RunRename ==
    /\ pc = "run"
    /\ runI < Len(fileList)
    /\ LET r == OsRename(fs, fileList[runI + 1], nFileList[runI + 1])
       IN  /\ r.ok
           /\ fs' \in r.fss
    /\ msg4log' = msg4log \o LogRecord(clock, fileList[runI + 1], nFileList[runI + 1])
    /\ runI' = runI + 1
    /\ UNCHANGED <<eventsAfterRun, clock, logFile, selectedFolders, folder2moveRenFile, fileList,
                   nFileList, targetFN_txt, newFN_txt, subFolders_chk,
                   moveRenFiles_chk, pc, planI, loc, runs>>

\* a Run whose failing rename is followed by initList(), as after a successful
\* loop
RunRaiseClears ==
    /\ pc = "run"
    /\ runI < Len(fileList)
    /\ ~OsRename(fs, fileList[runI + 1], nFileList[runI + 1]).ok
    /\ InitList
    /\ pc' = "idle"
    /\ msg4log' = <<>>
    /\ UNCHANGED <<eventsAfterRun, fs, clock, logFile, folder2moveRenFile, runI,
                   subFolders_chk, moveRenFiles_chk, planI, loc, runs>>

\* one pass of the loop of Run: rename(fp, newFP) raises OSError, which leaves
\* the handler; the event loop goes on.  Nothing is assigned on the way out:
\* runI stays at the pair that failed until the next Run starts its loop
RunRaise ==
    /\ pc = "run"
    /\ runI < Len(fileList)
    /\ ~OsRename(fs, fileList[runI + 1], nFileList[runI + 1]).ok
    /\ pc' = "idle"
    /\ runI' = runI
    /\ msg4log' = <<>>
    /\ UNCHANGED <<eventsAfterRun, fs, clock, logFile, selectedFolders, folder2moveRenFile, fileList,
                   nFileList, targetFN_txt, newFN_txt, subFolders_chk,
                   moveRenFiles_chk, planI, loc, runs>>

\* after the loop of Run: writeFile(self.logFile, msg4log), initList(), and the
\* message box
RunFinish ==
    /\ pc = "run"
    /\ runI = Len(fileList)
    /\ logFile' = logFile \o msg4log
    /\ InitList
    /\ pc' = "idle"
    /\ runI' = 0
    /\ msg4log' = <<>>
    /\ UNCHANGED <<eventsAfterRun, fs, clock, folder2moveRenFile, subFolders_chk, moveRenFiles_chk,
                   planI, loc, runs>>

\* a second passes
Tick ==
    /\ clock < Clock0 + MaxTicks
    /\ clock' = clock + 1
    /\ UNCHANGED <<eventsAfterRun, fs, logFile, selectedFolders, folder2moveRenFile, fileList,
                   nFileList, targetFN_txt, newFN_txt, subFolders_chk,
                   moveRenFiles_chk, pc, runI, msg4log, planI, loc, runs>>

Next ==
    \/ \E picked \in PickedChoices, sub \in BOOLEAN : SelectFolders(picked, sub)
    \/ OnCheckBox
    \/ \E dir \in Folder2MoveChoices : SelectFolder2Move(dir)
    \/ \E txt \in EnteredTargetFN : EnterTargetFN(txt)
    \/ \E txt \in EnteredNewFN : EnterNewFN(txt)
    \/ \E k \in 1..Len(newFFO) : OnChoice(k)
    \/ RunStart
    \/ RunRename
    \/ RunRaise
    \/ RunFinish

Spec == Init /\ [][Next]_vars

-----------------------------------------------------------------------------
(* The loop of updateFileList on its own: the file list, the new file       *)
(* format and the folder to move to are drawn, and every step is one pass   *)
(* of "for i, fp in enumerate(self.fileList)".                              *)

\* file paths a file list is drawn from: the scenario's three files, a name
\* with two dots, a name without a dot that is also the folder's name, a name
\* that starts with a dot, and a name that holds the text of an option
bABTxt  == <<"/", "t", "m", "p", "/", "b", "/", "a", ".", "b", ".", "t", "x", "t">>
notes   == <<"/", "t", "m", "p", "/", "n", "o", "t", "e", "s", "/", "n", "o", "t", "e", "s">>
aBashrc == <<"/", "t", "m", "p", "/", "a", "/", ".", "b", "a", "s", "h", "r", "c">>
aIncNum == tmpA \o SEP \o TStr(incNum) \o <<".", "t", "x", "t">>
PlanPaths == { aX, aY, bZ, bABTxt, notes, aBashrc, aIncNum }

\* the file lists of the scenario's files, folder after folder or not
ScenarioLists == { <<p, q, r>> : p \in {aX, aY, bZ}, q \in {aX, aY, bZ}, r \in {aX, aY, bZ} }

\* a file list long enough for two digits: /tmp/a/1.txt .. /tmp/a/7.txt, then
\* /tmp/b/8.txt ..
LongList == [i \in 1..LongLen |->
                (IF i <= 7 THEN tmpA ELSE tmpB) \o SEP \o Str(i) \o <<".", "t", "x", "t">>]

RECURSIVE SeqsUpTo(_, _)
SeqsUpTo(S, n) ==
    IF n = 0 THEN { <<>> }
    ELSE LET shorter == SeqsUpTo(S, n - 1)
         IN  shorter \cup { Append(q, x) : q \in shorter, x \in S }

PlanFileLists == SeqsUpTo(PlanPaths, MaxPlanFiles) \cup ScenarioLists \cup { LongList }

PlanTemplates ==
    { DefaultNewFN,
      <<"n">>,
      TStr(incNum),
      TStr(incNumInFolder),
      TStr(incNum) \o <<"_">> \o TStr(incNumInFolder),
      TStr(folderN) \o <<"_">> \o TStr(incNumInFolder),
      TStr(ts),
      TStr(oFileN) \o <<"_">> \o TStr(incNum) }

PlanOverrides == { <<>>, tmpB }

\* updateFileList() at line 899: the file list is set, the plan is empty, the
\* locals are initialised
InitPlan ==
    /\ fs = FS0
    /\ clock = Clock0
    /\ logFile = LogHeader
    /\ selectedFolders = <<>>
    /\ folder2moveRenFile \in PlanOverrides
    /\ fileList \in PlanFileLists
    /\ nFileList = <<>>
    /\ targetFN_txt = DefaultTargetFN
    /\ newFN_txt \in PlanTemplates
    /\ subFolders_chk = FALSE
    /\ moveRenFiles_chk = (folder2moveRenFile # <<>>)
    /\ pc = "plan"
    /\ runI = 0
    /\ msg4log = <<>>
    /\ planI = 0
    /\ loc = LocalsInit
    /\ runs = 0
    /\ eventsAfterRun = 0

\* one pass of the loop: the new file path is appended to self.nFileList
PlanIter ==
    /\ pc = "plan"
    /\ planI < Len(fileList)
    /\ LET r == LoopBody(planI, fileList[planI + 1], loc, newFN_txt,
                         folder2moveRenFile, ZeroPadN(fileList), clock)
       IN  /\ nFileList' = Append(nFileList, r.newFP)
           /\ loc' = [incN |-> r.incN, folderPath |-> r.folderPath,
                      prevFolderP |-> r.prevFolderP, rStr |-> r.rStr]
    /\ planI' = planI + 1
    /\ UNCHANGED <<fs, clock, logFile, selectedFolders, folder2moveRenFile, fileList,
                   targetFN_txt, newFN_txt, subFolders_chk, moveRenFiles_chk, pc,
                   runI, msg4log, runs, eventsAfterRun>>

NextPlan ==
    \/ PlanIter
    \/ Tick

SpecPlan == InitPlan /\ [][NextPlan]_vars

-----------------------------------------------------------------------------
(* What the properties speak of *)

\* the folder that holds the file p names
FolderOf(p) == ParentOf(Canon(p))

\* the extension of the file p names: what follows the last "." of its name,
\* and none when the name holds no "."
Extension(p) ==
    LET bn == Basename(p)
    IN  IF Contains(bn, DOT)
        THEN [has |-> TRUE, ext |-> DropFirst(bn, RFind(bn, DOT) + 1)]
        ELSE [has |-> FALSE, ext |-> <<>>]

\* the identities of the entries of a file system
IdsOf(fsys) == { fsys[i].id : i \in 1..Len(fsys) }

\* what the last pass of the loop put in place of option name
Substituted(l, name) == l.rStr[CHOOSE k \in 1..Len(newFFO) : newFFO[k] = name]

\* the number n as the plan of fL writes it: padded to len(str(N)) digits
Padded(n, fL) == ZFill(Str(n), Len(Str(Len(fL))))

\* the position, from 1, of entry n of fL within its run of consecutive
\* entries of one folder
RECURSIVE RunPos(_, _)
RunPos(fL, n) ==
    IF n > 1 /\ FolderOf(fL[n]) = FolderOf(fL[n - 1]) THEN RunPos(fL, n - 1) + 1 ELSE 1

\* the template without option name
Without(newForm, name) == Replace(newForm, TStr(name), <<>>)

\* two pairs of the plan have different sources and the same destination
SameDestinationTwice ==
    \E i, j \in 1..Len(fileList) :
        i < j /\ fileList[i] # fileList[j] /\ nFileList[i] = nFileList[j]

\* from file system f to g, the entry src named is now the entry dst names,
\* and every entry outside src, other than the one dst named, stays
MovedTo(f, g, src, dst) ==
    LET a == Lookup(f, src)
        b == Lookup(g, dst)
    IN  /\ a # 0
        /\ b # 0
        /\ g[b].id = f[a].id
        /\ \A i \in 1..Len(f) :
               (~IsUnder(f[i].path, Canon(src)) /\ ~IsUnder(f[i].path, Canon(dst)))
                   => \E j \in 1..Len(g) : g[j] = f[i]

\* no file (an entry that is no directory) of fsys lies directly in one of the
\* folders under a name the pattern matches
NoMatch(fsys, folders, fileForm) ==
    \A i \in 1..Len(fsys), j \in 1..Len(folders) :
        ~ /\ ~fsys[i].dir
          /\ FolderOf(fsys[i].path) = Canon(folders[j])
          /\ FnMatch(Basename(fsys[i].path), fileForm)
          /\ ~IsHidden(Basename(fsys[i].path))

\* the step is a handler that calls updateFileList
RecomputeStep ==
    \/ \E picked \in PickedChoices, sub \in BOOLEAN : SelectFolders(picked, sub)
    \/ \E dir \in Folder2MoveChoices : SelectFolder2Move(dir)
    \/ \E txt \in EnteredTargetFN : EnterTargetFN(txt)
    \/ \E txt \in EnteredNewFN : EnterNewFN(txt)
    \/ \E k \in 1..Len(newFFO) : OnChoice(k)

-----------------------------------------------------------------------------
(* The properties *)

\* C1: after any sequence of user events (no Run yet), the stored plan
\* nFileList is the plan a full recompute produces from the current folders,
\* pattern, template and folder to move to.
C1_PlanIsFresh ==
    (pc = "idle" /\ runs = 0) =>
        nFileList = NewFileList(CollectFiles(fs, selectedFolders, targetFN_txt),
                                newFN_txt, folder2moveRenFile, clock)

\* C2: while Run executes a plan in which two pairs have the same destination,
\* no step of Run loses an entry of the file system: nothing is overwritten.
C2_NoSilentOverwrite ==
    [][ (pc = "run" /\ SameDestinationTwice) => IdsOf(fs) \subseteq IdsOf(fs') ]_vars

\* C3: when the template holds [incNum], the value put in place of [incNum]
\* for the n-th file of the list is n, padded to len(str(N)) digits, whatever
\* else the template holds.
C3_IncNumCountsFiles ==
    (pc = "plan" /\ planI >= 1 /\ Contains(newFN_txt, TStr(incNum))) =>
        Substituted(loc, incNum) = [used |-> TRUE, val |-> Padded(planI, fileList)]

\* C4: when the template holds [incNumInFolder], the value for a file after
\* the first is 1 exactly when its folder differs from the folder of the file
\* before it, and otherwise the value of the file before it plus 1.
C4_ResetIffFolderChanges ==
    [][ (pc = "plan" /\ planI >= 1 /\ planI' = planI + 1
         /\ Contains(newFN_txt, TStr(incNumInFolder))) =>
            LET prev    == Substituted(loc, incNumInFolder).val
                cur     == Substituted(loc', incNumInFolder).val
                changed == FolderOf(fileList[planI + 1]) # FolderOf(fileList[planI])
            IN  /\ (cur = Padded(1, fileList)) <=> changed
                /\ ~changed => \E n \in 1..Len(fileList) :
                                   /\ prev = Padded(n, fileList)
                                   /\ cur = Padded(n + 1, fileList) ]_vars

\* C5: the two counters are independent: the value for [incNum] is the one the
\* template without [incNumInFolder] gives, and the value for
\* [incNumInFolder] is the file's position within its run of consecutive
\* files of one folder, whether or not [incNum] is in the template.
C5_IndependentCounters ==
    (pc = "plan" /\ planI >= 1) =>
        /\ Contains(newFN_txt, TStr(incNum)) =>
               Substituted(loc, incNum).val =
                   Substituted(LocalsAfter(planI, fileList,
                                           Without(newFN_txt, incNumInFolder),
                                           folder2moveRenFile, clock), incNum).val
        /\ Contains(newFN_txt, TStr(incNumInFolder)) =>
               Substituted(loc, incNumInFolder).val =
                   Padded(RunPos(fileList, planI), fileList)

\* C6: for every entry of the plan, the extension of the new path is the
\* extension of the old path; an old name without extension gives a new name
\* without extension.
C6_ExtensionKept ==
    \A i \in 1..Len(nFileList) : Extension(nFileList[i]) = Extension(fileList[i])

\* C7: without a folder to move to, the folder of every new path is the
\* folder of its old path; with one, every new path lies directly in it.
C7_DestinationFolder ==
    \A i \in 1..Len(nFileList) :
        FolderOf(nFileList[i]) = IF folder2moveRenFile = <<>>
                                 THEN FolderOf(fileList[i])
                                 ELSE Canon(folder2moveRenFile)

\* C8: whenever Run ends, after the last pair or at a rename that fails, what
\* that Run added to the log file is one record per pair it renamed, in plan
\* order.
C8_OneRecordPerRename ==
    [][ (pc = "run" /\ pc' = "idle") =>
            logFile' = logFile \o
                Concat([i \in 1..runI |-> LogRecord(clock, fileList[i], nFileList[i])])
      ]_vars

\* C9: the file system changes in no step but a pass of the loop of Run; a
\* pass moves the entry fileList[runI] names to nFileList[runI] and nothing
\* else, goes to the next index, and leaves both lists as they are. (A Run
\* that a failing rename ends has renamed the pairs before that one.)
C9_RunFollowsPlan ==
    [][ /\ fs' # fs => (pc = "run" /\ pc' = "run")
        /\ (pc = "run" /\ pc' = "run") =>
               /\ runI < Len(fileList)
               /\ MovedTo(fs, fs', fileList[runI + 1], nFileList[runI + 1])
               /\ runI' = runI + 1
               /\ fileList' = fileList
               /\ nFileList' = nFileList ]_vars

\* the loop of Run has renamed two pairs and the file system has changed
C9_Witness == pc = "run" /\ runI >= 2 /\ fs # FS0 /\ Len(fileList) > runI

\* C10: in every state the plan is as long as the file list; after every
\* recompute the plan holds, index by index, the destination computed for the
\* file of that index; and after a recompute with no file matching the
\* pattern in any of the folders, both lists are empty.
C10_PlanAligned ==
    /\ [](Len(nFileList) = Len(fileList))
    /\ [][ RecomputeStep =>
               nFileList' = NewFileList(fileList', newFN_txt', folder2moveRenFile', clock')
         ]_vars
    /\ [][ (RecomputeStep /\ NoMatch(fs', selectedFolders', targetFN_txt')) =>
               (fileList' = <<>> /\ nFileList' = <<>>) ]_vars

\* no path occurs twice in the list l
NoDuplicates(l) == \A i, j \in 1..Len(l) : i # j => l[i] # l[j]

\* C11: after every folder selection the folder set holds no path twice, and
\* so no file occurs twice in the file list.
C11_NoDuplicatePaths ==
    (pc = "idle" /\ runs = 0) => (NoDuplicates(selectedFolders) /\ NoDuplicates(fileList))

\* the entries of fsys that lie directly in folder d under a name the pattern
\* matches and are no directories, in listing order
FilesIn(fsys, d, fileForm) ==
    LET found == SelectSeq(fsys, LAMBDA e : /\ FolderOf(e.path) = Canon(d)
                                            /\ FnMatch(Basename(e.path), fileForm)
                                            /\ ~IsHidden(Basename(e.path))
                                            /\ ~e.dir)
    IN  [i \in 1..Len(found) |-> found[i].path]

\* C12: the file list is the matching files of the folders, folder by folder
\* in the order of the folder set, and holds no directory.
C12_FilesOnly ==
    (pc = "idle" /\ runs = 0) =>
        /\ [i \in 1..Len(fileList) |-> Canon(fileList[i])] =
               Concat([i \in 1..Len(selectedFolders) |->
                          FilesIn(fs, selectedFolders[i], targetFN_txt)])
        /\ \A i \in 1..Len(fileList) : ~IsDir(fs, fileList[i])

\* C13: when the rename of a pair fails, the renames done before it stay, and
\* the failure does not end Run while pairs remain: Run ends at a failing
\* rename only if that pair was the last.
C13_FailureDoesNotHalt ==
    [][ (pc = "run" /\ pc' = "idle" /\ runI < Len(fileList)) =>
            (fs' = fs /\ runI + 1 = Len(fileList)) ]_vars

\* the folder the dialog's path p names: p without the disk name
PickedRoot(p) == DropFirst(p, Len(Disk))

\* the elements of the list l
Elements(l) == { l[i] : i \in 1..Len(l) }

\* C14: after a folder selection, a picked root that does not exist or is no
\* directory is not in the folder set, and every other picked root is.
C14_BadRootExcluded ==
    [][ \A picked \in PickedChoices, sub \in BOOLEAN :
            (pc = "idle" /\ subFolders_chk' = sub /\ SelectFolders(picked, sub)) =>
                /\ \A i \in 1..Len(selectedFolders') : IsDir(fs, selectedFolders'[i])
                /\ \A j \in 1..Len(picked) :
                       IsDir(fs, PickedRoot(picked[j])) =>
                           PickedRoot(picked[j]) \in Elements(selectedFolders') ]_vars

\* the template of the scenario: "[folderN]_[incNumInFolder]"
FolderAndNumber == TStr(folderN) \o <<"_">> \o TStr(incNumInFolder)

\* C15: with the template "[folderN]_[incNumInFolder]" and no folder to move
\* to, every file is planned as <its folder>/<last component of its
\* folder>_<its position within its run of files of that folder, padded>.<its
\* extension>; /tmp/a/x.txt, /tmp/a/y.txt, /tmp/b/z.txt are planned as
\* /tmp/a/a_1.txt, /tmp/a/a_2.txt, /tmp/b/b_1.txt.
C15_FolderAndNumber ==
    (pc = "plan" /\ newFN_txt = FolderAndNumber /\ folder2moveRenFile = <<>>) =>
        /\ \A i \in 1..Len(nFileList) :
               nFileList[i] =
                   FolderOf(fileList[i]) \o SEP \o Basename(FolderOf(fileList[i]))
                   \o <<"_">> \o Padded(RunPos(fileList, i), fileList)
                   \o DOT \o Extension(fileList[i]).ext
        /\ (fileList = <<aX, aY, bZ>> /\ planI = Len(fileList)) =>
               nFileList = << tmpA \o SEP \o <<"a", "_", "1", ".", "t", "x", "t">>,
                              tmpA \o SEP \o <<"a", "_", "2", ".", "t", "x", "t">>,
                              tmpB \o SEP \o <<"b", "_", "1", ".", "t", "x", "t">> >>

\* C16: an option whose text "[option]" is not in the template is skipped for
\* every file: nothing is put in its place, and the counter does not move on
\* its account.
C16_AbsentOptionSkipped ==
    (pc = "plan" /\ planI >= 1) =>
        /\ \A k \in 1..Len(newFFO) :
               ~Contains(newFN_txt, TStr(newFFO[k])) => ~loc.rStr[k].used
        /\ (~Contains(newFN_txt, TStr(incNum)) /\ ~Contains(newFN_txt, TStr(incNumInFolder)))
               => loc.incN = LocalsInit.incN

\* how many "." the name of the file p names holds
DotsIn(p) == LET bn == Basename(p) IN Cardinality({ i \in 1..Len(bn) : <<bn[i]>> = DOT })

\* C19: for a name with several ".", [oFileN] is replaced by the part before
\* the first "." and the extension kept is the part after the last "."; with
\* the template "[oFileN]" and no folder to move to, a name with one "." is
\* planned onto its own path.
C19_SeveralDots ==
    \A i \in 1..Len(nFileList) :
        LET bn == Basename(fileList[i])
        IN  /\ (DotsIn(fileList[i]) > 1 /\ newFN_txt = DefaultNewFN) =>
                   Basename(nFileList[i]) =
                       SubSeq(bn, 1, Find(bn, DOT)) \o DOT \o DropFirst(bn, RFind(bn, DOT) + 1)
            /\ (DotsIn(fileList[i]) > 1 /\ i = planI /\ Contains(newFN_txt, TStr(oFileN))) =>
                   Substituted(loc, oFileN).val = SubSeq(bn, 1, Find(bn, DOT))
            /\ (DotsIn(fileList[i]) = 1 /\ newFN_txt = DefaultNewFN
                /\ folder2moveRenFile = <<>>) =>
                   nFileList[i] = fileList[i]

\* C17: a Run in which every rename succeeded leaves the folder set, the file
\* list and the plan empty, and a Run pressed while no folder is selected
\* renames nothing.
C17_ClearedAfterRun ==
    [][ /\ (pc = "run" /\ pc' = "idle" /\ runI = Len(fileList)) =>
               (selectedFolders' = <<>> /\ fileList' = <<>> /\ nFileList' = <<>>)
        /\ (pc = "run" /\ selectedFolders = <<>>) =>
               (fs' = fs /\ pc' = "idle" /\ logFile' = logFile) ]_vars

\* a first Run renamed files and wrote its records, and Run was pressed again
\* with nothing selected since
C17_Witness ==
    /\ pc = "run"
    /\ runs > 1
    /\ selectedFolders = <<>>
    /\ fileList = <<>>
    /\ fs # FS0
    /\ logFile # LogHeader

\* the directories below the folder r that glob lists: no name from r down to
\* them starts with "."
VisibleDirsUnder(fsys, r) ==
    LET cr     == Canon(r)
        below  == { k \in 1..Len(fsys) : fsys[k].path # cr /\ IsUnder(fsys[k].path, cr) }
        hidden == { m \in below : IsHidden(Basename(fsys[m].path)) }
    IN  { fsys[k].path : k \in { n \in below :
            /\ fsys[n].dir
            /\ \A m \in hidden : ~IsUnder(fsys[n].path, fsys[m].path) } }

\* the list seg is the folder r and then the directories below it, every one
\* once, a parent before its children, the whole subtree of a folder right
\* after it, and the children of one folder in listing order
IsPreOrder(seg, fsys, r) ==
    /\ Len(seg) >= 1
    /\ seg[1] = r
    /\ NoDuplicates(seg)
    /\ Elements(Tail(seg)) = VisibleDirsUnder(fsys, r)
    /\ \A i \in 2..Len(seg) : \E j \in 1..(i - 1) : seg[j] = ParentOf(seg[i])
    /\ \A i, j, k \in 1..Len(seg) :
           (i < j /\ j < k /\ IsUnder(seg[k], seg[i])) => IsUnder(seg[j], seg[i])
    /\ \A i, j \in 2..Len(seg) :
           (i < j /\ ParentOf(seg[i]) = ParentOf(seg[j])) =>
               Lookup(fsys, seg[i]) < Lookup(fsys, seg[j])

\* where the part of root j starts in the folder set of the roots, when every
\* root comes with the directories below it
RECURSIVE SegmentStart(_, _, _)
SegmentStart(fsys, roots, j) ==
    IF j = 1 THEN 1
    ELSE SegmentStart(fsys, roots, j - 1)
         + 1 + Cardinality(VisibleDirsUnder(fsys, roots[j - 1]))

\* C18: in every state in which the user can select folders, what a selection
\* makes of any picked roots is this: with "Include sub-folders", root after
\* root in picked order, the root followed by the pre-order traversal of the
\* directories below it (those glob lists); without it, the picked roots in
\* picked order.
C18_PreOrder ==
    (pc = "idle" /\ (runs = 0 \/ eventsAfterRun < MaxEventsAfterRun)) =>
        \A picked \in PickedChoices :
            LET roots == [j \in 1..Len(picked) |-> PickedRoot(picked[j])]
                L     == SelectedFolders(fs, picked, TRUE)
                start == [j \in 1..(Len(roots) + 1) |-> SegmentStart(fs, roots, j)]
            IN  /\ SelectedFolders(fs, picked, FALSE) = roots
                /\ Len(L) = start[Len(roots) + 1] - 1
                /\ \A j \in 1..Len(roots) :
                       IsPreOrder(SubSeq(L, start[j], start[j + 1] - 1), fs, roots[j])

\* the root /tmp was picked with "Include sub-folders": /tmp/a/c comes after
\* /tmp/a and before /tmp/b
C18_Witness ==
    /\ subFolders_chk
    /\ selectedFolders = <<tmp, tmpA, tmpC, tmpB>>

\* a step in which a rename of Run fails at pair runI: the three lists and the
\* file system stay as they are, and the Run is over
FailedRunKeepsLists ==
    (pc = "run" /\ pc' = "idle" /\ runI < Len(fileList)) =>
        /\ selectedFolders' = selectedFolders
        /\ fileList' = fileList
        /\ nFileList' = nFileList
        /\ fs' = fs

\* a step in which Run is pressed: the loop starts at pair 0 of the lists as
\* they are stored
RunStartsAtPairZero ==
    (pc = "idle" /\ pc' = "run") =>
        /\ runI' = 0
        /\ selectedFolders' = selectedFolders
        /\ fileList' = fileList
        /\ nFileList' = nFileList
        /\ fs' = fs

\* C20 as stated: if a rename fails at pair k during Run, the folder set, the
\* file list and the plan are left as they were, no pair after k is attempted,
\* and a second Run pressed with no recompute in between starts at pair 0;
\* when k > 0 the source of pair 0 no longer exists and that Run fails on
\* pair 0.
C20_SecondRunFailsAtPairZero ==
    [][ /\ FailedRunKeepsLists
        /\ RunStartsAtPairZero
        /\ (pc = "idle" /\ pc' = "run" /\ eventsAfterRun = 0 /\ runI > 0) =>
               /\ ~LExists(fs, fileList[1])
               /\ ~OsRename(fs, fileList[1], nFileList[1]).ok ]_vars

\* C20, amended: if a rename fails at pair k during Run, the folder set, the
\* file list and the plan are left as they were, no pair after k is attempted,
\* and a second Run pressed with no recompute in between starts at pair 0;
\* when the source of pair 0 no longer exists, that Run fails on pair 0 and
\* renames nothing.
C20_FailedRunKeepsPlan ==
    [][ /\ FailedRunKeepsLists
        /\ RunStartsAtPairZero
        /\ (pc = "run" /\ runI = 0 /\ fileList # <<>> /\ ~LExists(fs, fileList[1])) =>
               /\ pc' = "idle"
               /\ fs' = fs
               /\ logFile' = logFile
               /\ selectedFolders' = selectedFolders
               /\ fileList' = fileList
               /\ nFileList' = nFileList ]_vars

\* a first Run moved the source of pair 0 away and failed further on, and the
\* second Run, pressed on the lists as they were, has failed on pair 0
C20_Witness ==
    /\ pc = "idle"
    /\ runs = 2
    /\ eventsAfterRun = 0
    /\ runI = 0
    /\ fileList # <<>>
    /\ fs # FS0
    /\ ~LExists(fs, fileList[1])

====
